---- MODULE Spec2Model ----
(***************************************************************************)
(* Model of yb/consensus/consensus.cc: ConsensusRound (term binding and    *)
(* completion notification), the Consensus facade (NewRound, leader state  *)
(* queries, GetLastOpId, fault hooks) and LeaderState (MakeNotReadyLeader, *)
(* CreateStatus).                                                          *)
(***************************************************************************)
EXTENDS Integers, Sequences, FiniteSets, TLC

VARIABLES
  currentTerm,             \* the facade's current term (election collaborator)
  rounds,                  \* the ConsensusRound objects created so far
  cbCount,                 \* per round, how often replicated_cb_ was invoked
  role,                    \* "LEADER" or "FOLLOWER" (election collaborator)
  leader_no_op_committed,  \* a no-op of the current term is committed
  old_leader_lease,        \* remaining lease of the previous leader
  majority_lease,          \* own lease is replicated to a majority
  leader_state_cache,      \* the LeaderState a stale query may return
  last_received,           \* result of GetLastReceivedOpId()
  last_committed,          \* result of GetLastCommittedOpId()
  fault_hooks_,            \* the installed ConsensusFaultHooks, or NullHooks
  hookCalls,               \* how many fault hook callbacks were invoked
  trans,                   \* the replicate lifecycle transition in progress
  crashed,                 \* LOG(FATAL) has terminated the process
  log,                     \* entries the replication driver appended
  checked,                 \* rounds whose term the driver checked ahead of the append
  query,                   \* the GetLeaderStatus(false) call in progress
  last                     \* the last call and what it returned

roundVars  == <<currentTerm, rounds, cbCount>>
leaderVars == <<role, leader_no_op_committed, old_leader_lease, majority_lease,
                leader_state_cache>>
opIdVars   == <<last_received, last_committed>>
hookVars   == <<fault_hooks_, hookCalls, trans, crashed>>
procVars   == <<log, checked, query>>
vars == <<roundVars, leaderVars, opIdVars, hookVars, procVars, last>>

----------------------------------------------------------------------------
\* Bounds of the model.
MaxTerm   == 3   \* terms are 1..MaxTerm
MaxRounds == 2   \* rounds created
MaxCalls  == 2   \* invocations of one round's callback
MaxLease  == 2   \* remaining lease durations are 0..MaxLease seconds
MaxIndex  == 2   \* log indexes are 0..MaxIndex
MaxHooks  == 2   \* distinct hook objects a test may install
MaxHookCalls == 3  \* fault hook callbacks invoked

\* Sentinels.
kUnboundTerm == -1
kUnknownTerm == -1
NullCb  == 0
NullMsg == 0

Terms     == 1..MaxTerm
\* int64 arguments a caller may pass as a term, the sentinel included.
TermArgs  == {kUnboundTerm} \cup (0..MaxTerm)
Callbacks == {NullCb, 1}
Messages  == {NullMsg, 1}

----------------------------------------------------------------------------
\* Status values: a code and the message, the message kept as its pieces.
StatusOK == [code |-> "OK", msg |-> <<>>]
STATUS(code, msg) == [code |-> code, msg |-> msg]

\* A format template is a sequence of literal pieces and placeholders $n.
Lit(text) == [arg |-> FALSE, text |-> text, n |-> 0]
Arg(n)    == [arg |-> TRUE,  text |-> "",   n |-> n]

\* strings::Substitute: each placeholder $n is replaced by the decimal text of
\* argument n, the literal pieces are kept.
Substitute(template, args) ==
  [i \in DOMAIN template |->
     IF template[i].arg THEN ToString(args[template[i].n + 1])
                        ELSE template[i].text]

----------------------------------------------------------------------------
\* ConsensusRound

\* Mutant: the constructor binds the round to the facade's current term.
ConsensusRound_BoundAtCreation(replicate_msg, replicated_cb) ==
  [replicate_msg_ |-> replicate_msg,
   replicated_cb_ |-> replicated_cb,
   bound_term_    |-> currentTerm]

\* The constructor stores the message and the callback; it assigns no term, so
\* bound_term_ keeps its initial value kUnboundTerm.
ConsensusRound(replicate_msg, replicated_cb) ==
  [replicate_msg_ |-> replicate_msg,
   replicated_cb_ |-> replicated_cb,
   bound_term_    |-> kUnboundTerm]

\* Mutant: the test for an unbound round is missing.
CheckBoundTerm_IgnoresUnbound(round, current_term) ==
  IF round.bound_term_ # current_term
  THEN STATUS("Aborted",
              Substitute(<<Lit("Operation submitted in term "), Arg(0),
                           Lit(" cannot be replicated in term "), Arg(1)>>,
                         <<round.bound_term_, current_term>>))
  ELSE StatusOK

\* Mutant: a term mismatch is not reported.
CheckBoundTerm_NeverAborts(round, current_term) ==
  StatusOK

CheckBoundTerm(round, current_term) ==
  IF round.bound_term_ # kUnboundTerm /\ round.bound_term_ # current_term
  THEN STATUS("Aborted",
              Substitute(<<Lit("Operation submitted in term "), Arg(0),
                           Lit(" cannot be replicated in term "), Arg(1)>>,
                         <<round.bound_term_, current_term>>))
  ELSE StatusOK

\* Mutant: the callback is handed the round's bound term.
NotifyCalls_BoundTerm(r, status, leader_term, applied_op_ids) ==
  IF rounds[r].replicated_cb_ = NullCb
  THEN <<>>
  ELSE <<[cb |-> rounds[r].replicated_cb_, round |-> r, status |-> status,
          leader_term |-> rounds[r].bound_term_,
          applied_op_ids |-> applied_op_ids]>>

\* The invocations of replicated_cb_ that one NotifyReplicationFinished makes.
NotifyCalls(r, status, leader_term, applied_op_ids) ==
  IF rounds[r].replicated_cb_ = NullCb
  THEN <<>>
  ELSE <<[cb |-> rounds[r].replicated_cb_, round |-> r, status |-> status,
          leader_term |-> leader_term, applied_op_ids |-> applied_op_ids]>>


\* Consensus::NewRound: a new round holding the message and the callback.
NewRound(replicate_msg, replicated_cb) ==
  /\ Len(rounds) < MaxRounds
  /\ rounds' = Append(rounds, ConsensusRound(replicate_msg, replicated_cb))
  /\ cbCount' = Append(cbCount, 0)
  /\ last' = [op |-> "NewRound", round |-> Len(rounds) + 1,
              term |-> currentTerm]
  /\ UNCHANGED <<currentTerm, leaderVars, opIdVars, procVars, hookVars>>

\* ConsensusRound::BindToTerm, called by the replication driver with the
\* current term on a round that is not bound yet.
BindToTerm(r) ==
  /\ rounds[r].bound_term_ = kUnboundTerm
  /\ rounds' = [rounds EXCEPT ![r].bound_term_ = currentTerm]
  /\ last' = [op |-> "BindToTerm", round |-> r, term |-> currentTerm]
  /\ UNCHANGED <<currentTerm, cbCount, leaderVars, opIdVars, procVars, hookVars>>

\* The term advances (another peer started an election): this node is a
\* follower of the new term, in which it has committed and replicated nothing.
AdvanceTerm ==
  /\ currentTerm < MaxTerm
  /\ currentTerm' = currentTerm + 1
  /\ role' = "FOLLOWER"
  /\ leader_no_op_committed' = FALSE
  /\ majority_lease' = FALSE
  /\ last' = [op |-> "AdvanceTerm", term |-> currentTerm + 1]
  /\ UNCHANGED <<rounds, cbCount, old_leader_lease, leader_state_cache,
                 opIdVars, procVars, hookVars>>

\* Mutant: the check binds an unbound round to the term it is checked against.
CheckBoundTermCall_Binds(r, current_term) ==
  /\ last' = [op |-> "CheckBoundTerm", round |-> r,
              current_term |-> current_term,
              result |-> CheckBoundTerm(rounds[r], current_term)]
  /\ rounds' = [rounds EXCEPT ![r].bound_term_ =
                  IF @ = kUnboundTerm THEN current_term ELSE @]
  /\ UNCHANGED <<currentTerm, cbCount, leaderVars, opIdVars, procVars, hookVars>>

\* A call of ConsensusRound::CheckBoundTerm (a const method).
CheckBoundTermCall(r, current_term) ==
  /\ last' = [op |-> "CheckBoundTerm", round |-> r,
              current_term |-> current_term,
              result |-> CheckBoundTerm(rounds[r], current_term)]
  /\ UNCHANGED <<roundVars, leaderVars, opIdVars, procVars, hookVars>>

\* A call of ConsensusRound::NotifyReplicationFinished.
NotifyReplicationFinished(r, status, leader_term, applied_op_ids) ==
  LET calls == NotifyCalls(r, status, leader_term, applied_op_ids) IN
  /\ cbCount[r] + Len(calls) <= MaxCalls
  /\ cbCount' = [cbCount EXCEPT ![r] = @ + Len(calls)]
  /\ last' = [op |-> "NotifyReplicationFinished", round |-> r,
              status |-> status, leader_term |-> leader_term,
              applied_op_ids |-> applied_op_ids, calls |-> calls]
  /\ UNCHANGED <<currentTerm, rounds, leaderVars, opIdVars, procVars, hookVars>>

\* The replication driver. It appends the entry of a round that is bound to
\* a term, once, after CheckBoundTerm against the current term succeeded:
\* either in one step with the append, or ahead of it.
Appended == {e.round : e \in log}

\* The driver checks the term first and appends later.
DriverCheck(r) ==
  LET res == CheckBoundTerm(rounds[r], currentTerm) IN
  /\ rounds[r].bound_term_ # kUnboundTerm
  /\ r \notin Appended \cup checked
  /\ checked' = IF res.code = "OK" THEN checked \cup {r} ELSE checked
  /\ last' = [op |-> "DriverCheck", round |-> r, result |-> res]
  /\ UNCHANGED <<roundVars, leaderVars, opIdVars, hookVars, log, query>>

\* The append that relies on the earlier check.
DriverAppendChecked(r) ==
  /\ r \in checked
  /\ checked' = checked \ {r}
  /\ log' = log \cup {[round |-> r, term |-> currentTerm, mode |-> "early"]}
  /\ last' = [op |-> "DriverAppendChecked", round |-> r]
  /\ UNCHANGED <<roundVars, leaderVars, opIdVars, hookVars, query>>

\* The check and the append in one step, with no term change in between.
DriverAppendAtomic(r) ==
  LET res == CheckBoundTerm(rounds[r], currentTerm) IN
  /\ rounds[r].bound_term_ # kUnboundTerm
  /\ r \notin Appended \cup checked
  /\ log' = IF res.code = "OK"
            THEN log \cup {[round |-> r, term |-> currentTerm,
                            mode |-> "atomic"]}
            ELSE log
  /\ last' = [op |-> "DriverAppendAtomic", round |-> r, result |-> res]
  /\ UNCHANGED <<roundVars, leaderVars, opIdVars, hookVars, checked, query>>

----------------------------------------------------------------------------
\* LeaderState and the leader queries of the facade

LeaderStatuses ==
  {"NOT_LEADER", "LEADER_BUT_NO_OP_NOT_COMMITTED",
   "LEADER_BUT_OLD_LEADER_MAY_HAVE_LEASE",
   "LEADER_BUT_NO_MAJORITY_REPLICATED_LEASE", "LEADER_AND_READY"}

Leases   == 0..MaxLease

\* A LeaderState object before anything is assigned to it: status and term
\* hold whatever the storage held, the lease duration is the empty MonoDelta.
NewLeaderStates ==
  [status : {"NOT_LEADER", "LEADER_AND_READY"}, term : {kUnknownTerm} \cup Terms,
   remaining_old_leader_lease : {0}]

\* The LeaderState values handed to CreateStatus: a term only when ready.
LeaderStates ==
  {s \in [status : LeaderStatuses, term : {kUnknownTerm} \cup Terms,
          remaining_old_leader_lease : Leases] :
     (s.status = "LEADER_AND_READY") <=> (s.term # kUnknownTerm)}

\* Mutant: the term is left as it was.
MakeNotReadyLeader_KeepsTerm(self, status_) ==
  [self EXCEPT !.status = status_]

MakeNotReadyLeader(self, status_) ==
  [self EXCEPT !.status = status_, !.term = kUnknownTerm]

\* MonoDelta::ToString: seconds with three decimals.
MonoDeltaToString(d) == ToString(d) \o ".000s"

\* Mutant: the missing lease is reported like the other not-ready cases.
CreateStatus_NoLeaseAsNotReady(self) ==
  IF self.status = "LEADER_AND_READY" THEN StatusOK
  ELSE IF self.status = "NOT_LEADER"
  THEN STATUS("IllegalState", <<"Not the leader">>)
  ELSE STATUS("LeaderNotReadyToServe",
              <<"Leader not yet replicated NoOp to be ready to serve requests">>)

\* Mutant: the message is built without the lease held in the state.
CreateStatus_LeaseDropped(self) ==
  CASE self.status = "NOT_LEADER" ->
         STATUS("IllegalState", <<"Not the leader">>)
    [] self.status = "LEADER_BUT_NO_OP_NOT_COMMITTED" ->
         STATUS("LeaderNotReadyToServe",
                <<"Leader not yet replicated NoOp to be ready to serve requests">>)
    [] self.status = "LEADER_BUT_OLD_LEADER_MAY_HAVE_LEASE" ->
         STATUS("LeaderNotReadyToServe",
                <<"Previous leader's lease might still be active (",
                  MonoDeltaToString(0), " remaining).">>)
    [] self.status = "LEADER_BUT_NO_MAJORITY_REPLICATED_LEASE" ->
         STATUS("LeaderHasNoLease",
                <<"This leader has not yet acquired a lease.">>)
    [] self.status = "LEADER_AND_READY" -> StatusOK

CreateStatus(self) ==
  CASE self.status = "NOT_LEADER" ->
         STATUS("IllegalState", <<"Not the leader">>)
    [] self.status = "LEADER_BUT_NO_OP_NOT_COMMITTED" ->
         STATUS("LeaderNotReadyToServe",
                <<"Leader not yet replicated NoOp to be ready to serve requests">>)
    [] self.status = "LEADER_BUT_OLD_LEADER_MAY_HAVE_LEASE" ->
         STATUS("LeaderNotReadyToServe",
                [i \in 1..3 |->
                   IF i = 1 THEN "Previous leader's lease might still be active ("
                   ELSE IF i = 2
                   THEN MonoDeltaToString(self.remaining_old_leader_lease)
                   ELSE " remaining)."])
    [] self.status = "LEADER_BUT_NO_MAJORITY_REPLICATED_LEASE" ->
         STATUS("LeaderHasNoLease",
                <<"This leader has not yet acquired a lease.">>)
    [] self.status = "LEADER_AND_READY" -> StatusOK

\* The readiness ladder computed on the live inputs, into the object `result`.
FreshLeaderState(result) ==
  IF role # "LEADER"
  THEN MakeNotReadyLeader(result, "NOT_LEADER")
  ELSE IF ~leader_no_op_committed
  THEN MakeNotReadyLeader(result, "LEADER_BUT_NO_OP_NOT_COMMITTED")
  ELSE IF old_leader_lease > 0
  THEN MakeNotReadyLeader(
         [result EXCEPT !.remaining_old_leader_lease = old_leader_lease],
         "LEADER_BUT_OLD_LEADER_MAY_HAVE_LEASE")
  ELSE IF ~majority_lease
  THEN MakeNotReadyLeader(result, "LEADER_BUT_NO_MAJORITY_REPLICATED_LEASE")
  ELSE [result EXCEPT !.status = "LEADER_AND_READY", !.term = currentTerm]

\* Consensus::GetLeaderState (pure virtual in the facade): a stale query may
\* answer from the cache, a query that is not stale recomputes.
GetLeaderState(allow_stale, result) ==
  IF allow_stale THEN leader_state_cache ELSE FreshLeaderState(result)

\* Mutant: the allow_stale argument is not passed on, the cache answers.
GetLeaderStatus_Stale(allow_stale, result) ==
  GetLeaderState(TRUE, result).status

GetLeaderStatus(allow_stale, result) ==
  GetLeaderState(allow_stale, result).status

\* LeaderTerm calls GetLeaderState with its default argument, not stale.
LeaderTerm(result) == GetLeaderState(FALSE, result).term


\* The node wins an election: it leads a new term, in which it has committed
\* and replicated nothing yet, while the previous leader's lease may still run.
BecomeLeader(lease) ==
  /\ role = "FOLLOWER"
  /\ currentTerm < MaxTerm
  /\ currentTerm' = currentTerm + 1
  /\ role' = "LEADER"
  /\ leader_no_op_committed' = FALSE
  /\ majority_lease' = FALSE
  /\ old_leader_lease' = lease
  /\ last' = [op |-> "BecomeLeader", term |-> currentTerm + 1]
  /\ UNCHANGED <<rounds, cbCount, leader_state_cache, opIdVars, procVars, hookVars>>

\* The no-op entry of the leader's term commits.
CommitNoOp ==
  /\ role = "LEADER"
  /\ ~leader_no_op_committed
  /\ leader_no_op_committed' = TRUE
  /\ last' = [op |-> "CommitNoOp"]
  /\ UNCHANGED <<roundVars, role, old_leader_lease, majority_lease,
                 leader_state_cache, opIdVars, procVars, hookVars>>

\* Time passes: the previous leader's lease has one second less to run.
LeaseTick ==
  /\ old_leader_lease > 0
  /\ old_leader_lease' = old_leader_lease - 1
  /\ last' = [op |-> "LeaseTick"]
  /\ UNCHANGED <<roundVars, role, leader_no_op_committed, majority_lease,
                 leader_state_cache, opIdVars, procVars, hookVars>>

\* A majority acknowledges the leader's own lease.
ReplicateLease ==
  /\ role = "LEADER"
  /\ ~majority_lease
  /\ majority_lease' = TRUE
  /\ last' = [op |-> "ReplicateLease"]
  /\ UNCHANGED <<roundVars, role, leader_no_op_committed, old_leader_lease,
                 leader_state_cache, opIdVars, procVars, hookVars>>

\* A call of Consensus::GetLeaderStatus; `result` is the LeaderState object
\* the computation fills in. A computation that is not stale refreshes the cache.
GetLeaderStatusCall(allow_stale, result) ==
  /\ last' = [op |-> "GetLeaderStatus", allow_stale |-> allow_stale,
              state |-> GetLeaderState(allow_stale, result),
              result |-> GetLeaderStatus(allow_stale, result)]
  /\ leader_state_cache' = GetLeaderState(allow_stale, result)
  /\ UNCHANGED <<roundVars, role, leader_no_op_committed, old_leader_lease,
                 majority_lease, opIdVars, procVars, hookVars>>

\* A call of Consensus::LeaderTerm.
LeaderTermCall(result) ==
  /\ last' = [op |-> "LeaderTerm",
              state |-> GetLeaderState(FALSE, result),
              result |-> LeaderTerm(result)]
  /\ leader_state_cache' = GetLeaderState(FALSE, result)
  /\ UNCHANGED <<roundVars, role, leader_no_op_committed, old_leader_lease,
                 majority_lease, opIdVars, procVars, hookVars>>

\* A call of LeaderState::CreateStatus on the LeaderState `state`.
CreateStatusCall(state) ==
  /\ last' = [op |-> "CreateStatus", state |-> state,
              result |-> CreateStatus(state)]
  /\ UNCHANGED <<roundVars, leaderVars, opIdVars, procVars, hookVars>>

\* A GetLeaderStatus(false) call while the inputs change concurrently: the
\* inputs are read together at one instant, the status is returned later.
IdleQuery ==
  [pc |-> "idle", status |-> "NOT_LEADER",
   inputs |-> [role |-> "FOLLOWER", no_op |-> FALSE, lease |-> 0,
               majority |-> FALSE]]

GetLeaderStatusBegin(result) ==
  /\ query.pc = "idle"
  /\ query' = [pc |-> "computed",
               status |-> GetLeaderStatus(FALSE, result),
               inputs |-> [role |-> role, no_op |-> leader_no_op_committed,
                           lease |-> old_leader_lease,
                           majority |-> majority_lease]]
  /\ leader_state_cache' = GetLeaderState(FALSE, result)
  /\ last' = [op |-> "GetLeaderStatusBegin"]
  /\ UNCHANGED <<roundVars, role, leader_no_op_committed, old_leader_lease,
                 majority_lease, opIdVars, hookVars, log, checked>>

GetLeaderStatusReturn ==
  /\ query.pc = "computed"
  /\ query' = IdleQuery
  /\ last' = [op |-> "GetLeaderStatusReturn", result |-> query.status,
              inputs |-> query.inputs]
  /\ UNCHANGED <<roundVars, leaderVars, opIdVars, hookVars, log, checked>>

----------------------------------------------------------------------------
\* Consensus::GetLastOpId

OpIdTypes == {"UNKNOWN_OPID_TYPE", "RECEIVED_OPID", "COMMITTED_OPID"}

\* MinimumOpId(), the value ConsensusBootstrapInfo starts from.
MinimumOpId == [term |-> 0, index |-> 0]

\* The generated name of an OpIdType value.
OpIdType_Name(type) == type

\* Mutant: the two cases of the switch are exchanged.
GetLastOpId_Swapped(type) ==
  CASE type = "RECEIVED_OPID" ->
         [status |-> StatusOK, value |-> last_committed,
          queries |-> <<"GetLastCommittedOpId">>]
    [] type = "COMMITTED_OPID" ->
         [status |-> StatusOK, value |-> last_received,
          queries |-> <<"GetLastReceivedOpId">>]
    [] OTHER ->
         [status |-> STATUS("InvalidArgument",
                            <<"Unsupported OpIdType", OpIdType_Name(type)>>),
          value |-> MinimumOpId, queries |-> <<>>]

\* The result, and the collaborator queries the call makes.
GetLastOpId(type) ==
  CASE type = "RECEIVED_OPID" ->
         [status |-> StatusOK, value |-> last_received,
          queries |-> <<"GetLastReceivedOpId">>]
    [] type = "COMMITTED_OPID" ->
         [status |-> StatusOK, value |-> last_committed,
          queries |-> <<"GetLastCommittedOpId">>]
    [] OTHER ->
         [status |-> STATUS("InvalidArgument",
                            <<"Unsupported OpIdType", OpIdType_Name(type)>>),
          value |-> MinimumOpId, queries |-> <<>>]

\* The log receives (appends locally) one more entry in the current term.
ReceiveOp ==
  /\ last_received.index < MaxIndex
  /\ last_received' = [term |-> currentTerm, index |-> last_received.index + 1]
  /\ last' = [op |-> "ReceiveOp"]
  /\ UNCHANGED <<roundVars, leaderVars, last_committed, hookVars, procVars>>

\* A majority holds everything received: it is committed.
CommitOp ==
  /\ last_committed # last_received
  /\ last_committed' = last_received
  /\ last' = [op |-> "CommitOp"]
  /\ UNCHANGED <<roundVars, leaderVars, last_received, hookVars, procVars>>

\* A call of Consensus::GetLastOpId.
GetLastOpIdCall(type) ==
  /\ last' = [op |-> "GetLastOpId", type |-> type, result |-> GetLastOpId(type)]
  /\ UNCHANGED <<roundVars, leaderVars, opIdVars, procVars, hookVars>>

----------------------------------------------------------------------------
\* Fault hooks

HookPoints ==
  {"PRE_START", "POST_START", "PRE_CONFIG_CHANGE", "POST_CONFIG_CHANGE",
   "PRE_REPLICATE", "POST_REPLICATE", "PRE_UPDATE", "POST_UPDATE",
   "PRE_SHUTDOWN", "POST_SHUTDOWN"}

\* A HookPoint value that is none of the ten enumerators.
InvalidHookPoint == "INVALID_HOOK_POINT"

\* No hook object: the empty shared_ptr.
NullHooks == [id |-> 0, fails |-> {}]

\* A hook object is known by its identity and by the callbacks that fail.
FailSets    == {{}, {"PreReplicate"}, {"PostReplicate"}, {"PreStart", "PostUpdate"}}
HookObjects == [id : 1..MaxHooks, fails : FailSets]

\* What callback `method` of hook object `hooks` returns.
HookResult(hooks, method) ==
  IF method \in hooks.fails
  THEN STATUS("RuntimeError", <<"injected fault in ", method>>)
  ELSE StatusOK

\* fault_hooks_->method(): the callback is invoked and its result returned.
Invoke(method) ==
  [status |-> HookResult(fault_hooks_, method),
   calls  |-> <<[hook |-> fault_hooks_.id, method |-> method]>>,
   fatal  |-> FALSE]

\* Mutant: the callback's result is dropped and success returned.
ExecuteHook_SwallowsFailure(point) ==
  IF fault_hooks_ # NullHooks /\ point \in HookPoints
  THEN [status |-> StatusOK,
        calls  |-> <<[hook |-> fault_hooks_.id, method |-> point]>>,
        fatal  |-> FALSE]
  ELSE [status |-> StatusOK, calls |-> <<>>, fatal |-> fault_hooks_ # NullHooks]

\* Mutant: the test for an installed hook object is missing.
ExecuteHook_NoNullCheck(point) ==
  IF point \in HookPoints
  THEN [status |-> StatusOK,
        calls  |-> <<[hook |-> fault_hooks_.id, method |-> point]>>,
        fatal  |-> FALSE]
  ELSE [status |-> StatusOK, calls |-> <<>>, fatal |-> TRUE]

\* Mutant: the PRE_UPDATE case dispatches to the post-update callback.
ExecuteHook_WrongCase(point) ==
  IF fault_hooks_ # NullHooks
  THEN CASE point = "PRE_START"          -> Invoke("PreStart")
         [] point = "POST_START"         -> Invoke("PostStart")
         [] point = "PRE_CONFIG_CHANGE"  -> Invoke("PreConfigChange")
         [] point = "POST_CONFIG_CHANGE" -> Invoke("PostConfigChange")
         [] point = "PRE_REPLICATE"      -> Invoke("PreReplicate")
         [] point = "POST_REPLICATE"     -> Invoke("PostReplicate")
         [] point = "PRE_UPDATE"         -> Invoke("PostUpdate")
         [] point = "POST_UPDATE"        -> Invoke("PostUpdate")
         [] point = "PRE_SHUTDOWN"       -> Invoke("PreShutdown")
         [] point = "POST_SHUTDOWN"      -> Invoke("PostShutdown")
         [] OTHER -> [status |-> StatusOK, calls |-> <<>>, fatal |-> TRUE]
  ELSE [status |-> StatusOK, calls |-> <<>>, fatal |-> FALSE]

\* Mutant: an unknown point falls through to the success at the end.
ExecuteHook_UnknownReturnsOK(point) ==
  IF fault_hooks_ # NullHooks /\ point \in HookPoints
  THEN Invoke(CASE point = "PRE_START"          -> "PreStart"
                [] point = "POST_START"         -> "PostStart"
                [] point = "PRE_CONFIG_CHANGE"  -> "PreConfigChange"
                [] point = "POST_CONFIG_CHANGE" -> "PostConfigChange"
                [] point = "PRE_REPLICATE"      -> "PreReplicate"
                [] point = "POST_REPLICATE"     -> "PostReplicate"
                [] point = "PRE_UPDATE"         -> "PreUpdate"
                [] point = "POST_UPDATE"        -> "PostUpdate"
                [] point = "PRE_SHUTDOWN"       -> "PreShutdown"
                [] point = "POST_SHUTDOWN"      -> "PostShutdown")
  ELSE [status |-> StatusOK, calls |-> <<>>, fatal |-> FALSE]

\* The status returned, the callbacks invoked, and whether LOG(FATAL) ended
\* the process instead of returning.
ExecuteHook(point) ==
  IF fault_hooks_ # NullHooks
  THEN CASE point = "PRE_START"          -> Invoke("PreStart")
         [] point = "POST_START"         -> Invoke("PostStart")
         [] point = "PRE_CONFIG_CHANGE"  -> Invoke("PreConfigChange")
         [] point = "POST_CONFIG_CHANGE" -> Invoke("PostConfigChange")
         [] point = "PRE_REPLICATE"      -> Invoke("PreReplicate")
         [] point = "POST_REPLICATE"     -> Invoke("PostReplicate")
         [] point = "PRE_UPDATE"         -> Invoke("PreUpdate")
         [] point = "POST_UPDATE"        -> Invoke("PostUpdate")
         [] point = "PRE_SHUTDOWN"       -> Invoke("PreShutdown")
         [] point = "POST_SHUTDOWN"      -> Invoke("PostShutdown")
         [] OTHER -> [status |-> StatusOK, calls |-> <<>>, fatal |-> TRUE]
  ELSE [status |-> StatusOK, calls |-> <<>>, fatal |-> FALSE]

\* Mutant: an installed hook object is not replaced (the first writer wins).
SetFaultHooks_FirstWins(hooks) ==
  /\ ~crashed
  /\ fault_hooks_' = IF fault_hooks_ = NullHooks THEN hooks ELSE fault_hooks_
  /\ last' = [op |-> "SetFaultHooks", hooks |-> hooks]
  /\ UNCHANGED <<roundVars, leaderVars, opIdVars, procVars, hookCalls, trans, crashed>>

SetFaultHooks(hooks) ==
  /\ ~crashed
  /\ fault_hooks_' = hooks
  /\ last' = [op |-> "SetFaultHooks", hooks |-> hooks]
  /\ UNCHANGED <<roundVars, leaderVars, opIdVars, procVars, hookCalls, trans, crashed>>

\* A call of Consensus::GetFaultHooks.
GetFaultHooksCall ==
  /\ ~crashed
  /\ last' = [op |-> "GetFaultHooks", result |-> fault_hooks_]
  /\ UNCHANGED <<roundVars, leaderVars, opIdVars, procVars, hookVars>>

\* A call of Consensus::ExecuteHook.
ExecuteHookCall(point) ==
  LET e == ExecuteHook(point) IN
  /\ ~crashed
  /\ hookCalls + Len(e.calls) <= MaxHookCalls
  /\ hookCalls' = hookCalls + Len(e.calls)
  /\ crashed' = e.fatal
  /\ last' = [op |-> "ExecuteHook", point |-> point, result |-> e.status,
              calls |-> e.calls, fatal |-> e.fatal]
  /\ UNCHANGED <<roundVars, leaderVars, opIdVars, procVars, fault_hooks_, trans>>

\* The replicate lifecycle transition: the pre-replicate hook, the replicate
\* step, the post-replicate hook; a hook's failure is returned at once.
IdleTrans ==
  [pc |-> "idle", status |-> StatusOK, preFailed |-> FALSE,
   appended |-> FALSE, postCalled |-> FALSE]

ReplicateBegin ==
  LET e == ExecuteHook("PRE_REPLICATE") IN
  /\ ~crashed
  /\ trans.pc = "idle"
  /\ hookCalls + Len(e.calls) <= MaxHookCalls
  /\ hookCalls' = hookCalls + Len(e.calls)
  /\ trans' = [trans EXCEPT
                 !.pc = IF e.status.code = "OK" THEN "pre_done" ELSE "returned",
                 !.status = e.status,
                 !.preFailed = (e.calls # <<>> /\
                                HookResult(fault_hooks_, "PreReplicate").code # "OK")]
  /\ last' = [op |-> "ReplicateBegin", result |-> e.status, calls |-> e.calls]
  /\ UNCHANGED <<roundVars, leaderVars, opIdVars, procVars, fault_hooks_, crashed>>

ReplicateAppend ==
  /\ ~crashed
  /\ trans.pc = "pre_done"
  /\ trans' = [trans EXCEPT !.pc = "appended", !.appended = TRUE]
  /\ last' = [op |-> "ReplicateAppend"]
  /\ UNCHANGED <<roundVars, leaderVars, opIdVars, procVars, fault_hooks_, hookCalls,
                 crashed>>

ReplicateEnd ==
  LET e == ExecuteHook("POST_REPLICATE") IN
  /\ ~crashed
  /\ trans.pc = "appended"
  /\ hookCalls + Len(e.calls) <= MaxHookCalls
  /\ hookCalls' = hookCalls + Len(e.calls)
  /\ trans' = [trans EXCEPT !.pc = "returned", !.status = e.status,
                            !.postCalled = (e.calls # <<>>)]
  /\ last' = [op |-> "ReplicateEnd", result |-> e.status, calls |-> e.calls]
  /\ UNCHANGED <<roundVars, leaderVars, opIdVars, procVars, fault_hooks_, crashed>>

\* The transition has returned to its caller; the next one may start.
ReplicateReturn ==
  /\ ~crashed
  /\ trans.pc = "returned"
  /\ trans' = IdleTrans
  /\ last' = [op |-> "ReplicateReturn"]
  /\ UNCHANGED <<roundVars, leaderVars, opIdVars, procVars, fault_hooks_, hookCalls,
                 crashed>>

----------------------------------------------------------------------------
\* Specifications

Init ==
  /\ currentTerm = 1
  /\ rounds = <<>>
  /\ cbCount = <<>>
  /\ role = "FOLLOWER"
  /\ leader_no_op_committed = FALSE
  /\ old_leader_lease = 0
  /\ majority_lease = FALSE
  /\ leader_state_cache =
       [status |-> "NOT_LEADER", term |-> kUnknownTerm,
        remaining_old_leader_lease |-> 0]
  /\ last_received = MinimumOpId
  /\ last_committed = MinimumOpId
  /\ fault_hooks_ = NullHooks
  /\ hookCalls = 0
  /\ trans = IdleTrans
  /\ crashed = FALSE
  /\ log = {}
  /\ checked = {}
  /\ query = IdleQuery
  /\ last = [op |-> "Init"]

\* Values a caller passes to NotifyReplicationFinished.
NotifyStatuses == {StatusOK, STATUS("Aborted", <<"Operation aborted">>)}
AppliedOpIds   == {<<>>, <<[term |-> 1, index |-> 1]>>}

\* Rounds, their binding to a term and the check of the bound term.
NextBind ==
  \/ \E m \in Messages, cb \in Callbacks : NewRound(m, cb)
  \/ \E r \in DOMAIN rounds : BindToTerm(r)
  \/ AdvanceTerm
  \/ \E r \in DOMAIN rounds, t \in TermArgs : CheckBoundTermCall(r, t)

SpecBind == Init /\ [][NextBind]_vars

\* Rounds and their completion notification.
NextNotify ==
  \/ \E cb \in Callbacks : NewRound(1, cb)
  \/ \E r \in DOMAIN rounds : BindToTerm(r)
  \/ \E r \in DOMAIN rounds, st \in NotifyStatuses, t \in Terms,
        ops \in AppliedOpIds : NotifyReplicationFinished(r, st, t, ops)

SpecNotify == Init /\ [][NextNotify]_vars

\* Rounds under interleaved term checks and completion notifications.
NextQuery ==
  \/ \E m \in Messages, cb \in Callbacks : NewRound(m, cb)
  \/ \E r \in DOMAIN rounds : BindToTerm(r)
  \/ \E r \in DOMAIN rounds, t \in TermArgs : CheckBoundTermCall(r, t)
  \/ \E r \in DOMAIN rounds, st \in NotifyStatuses :
        NotifyReplicationFinished(r, st, currentTerm, <<>>)

SpecQuery == Init /\ [][NextQuery]_vars

\* The replication driver under term advances.
NextDriver ==
  \/ NewRound(1, NullCb)
  \/ \E r \in DOMAIN rounds : BindToTerm(r)
  \/ AdvanceTerm
  \/ \E r \in DOMAIN rounds : DriverCheck(r)
  \/ \E r \in DOMAIN rounds : DriverAppendChecked(r)
  \/ \E r \in DOMAIN rounds : DriverAppendAtomic(r)

SpecDriver == Init /\ [][NextDriver]_vars

\* A leader status query under concurrent elections, commits and leases.
NextSnapshot ==
  \/ \E l \in Leases : BecomeLeader(l)
  \/ AdvanceTerm
  \/ CommitNoOp
  \/ LeaseTick
  \/ ReplicateLease
  \/ \E res \in NewLeaderStates : GetLeaderStatusBegin(res)
  \/ GetLeaderStatusReturn

SpecSnapshot == Init /\ [][NextSnapshot]_vars

\* The leader state queries under elections, commits and leases.
NextLeader ==
  \/ \E l \in Leases : BecomeLeader(l)
  \/ AdvanceTerm
  \/ CommitNoOp
  \/ LeaseTick
  \/ ReplicateLease
  \/ \E stale \in BOOLEAN, res \in NewLeaderStates :
        GetLeaderStatusCall(stale, res)
  \/ \E res \in NewLeaderStates : LeaderTermCall(res)
  \/ \E s \in LeaderStates : CreateStatusCall(s)

SpecLeader == Init /\ [][NextLeader]_vars

\* The op id queries while the log grows.
NextOpId ==
  \/ AdvanceTerm
  \/ ReceiveOp
  \/ CommitOp
  \/ \E type \in OpIdTypes : GetLastOpIdCall(type)

SpecOpId == Init /\ [][NextOpId]_vars

\* Fault hooks: installation, dispatch and the replicate transition.
NextHooks ==
  \/ \E h \in HookObjects \cup {NullHooks} : SetFaultHooks(h)
  \/ GetFaultHooksCall
  \/ \E point \in HookPoints \cup {InvalidHookPoint} : ExecuteHookCall(point)
  \/ ReplicateBegin
  \/ ReplicateAppend
  \/ ReplicateEnd
  \/ ReplicateReturn

SpecHooks == Init /\ [][NextHooks]_vars

----------------------------------------------------------------------------
\* Properties

Range(f) == {f[i] : i \in DOMAIN f}

\* C1: the callback of a round is invoked at most once, however often
\* NotifyReplicationFinished is called on the round.
C1_CallbackAtMostOnce ==
  \A r \in DOMAIN rounds : cbCount[r] <= 1

\* C2: CheckBoundTerm(current_term) succeeds if the round is unbound or bound
\* to current_term, and otherwise fails with Aborted, its message carrying the
\* bound term and current_term.
C2_CheckBoundTerm ==
  last.op = "CheckBoundTerm" =>
    LET b == rounds[last.round].bound_term_
        t == last.current_term
    IN  IF b = kUnboundTerm \/ b = t
        THEN last.result.code = "OK"
        ELSE /\ last.result.code = "Aborted"
             /\ last.result.msg =
                  <<"Operation submitted in term ", ToString(b),
                    " cannot be replicated in term ", ToString(t)>>

C2_Witness ==
  /\ last.op = "CheckBoundTerm"
  /\ rounds[last.round].bound_term_ = 1
  /\ last.current_term = 2
  /\ last.result.code = "Aborted"
  /\ {"1", "2"} \subseteq Range(last.result.msg)

C4_CreateStatusTotal ==
  last.op = "CreateStatus" =>
    LET s == last.state.status
        res == last.result
    IN  /\ s \in LeaderStatuses
        /\ s = "NOT_LEADER" => res.code = "IllegalState"
        /\ s = "LEADER_BUT_NO_OP_NOT_COMMITTED" =>
             res.code = "LeaderNotReadyToServe"
        /\ s = "LEADER_BUT_OLD_LEADER_MAY_HAVE_LEASE" =>
             res.code = "LeaderNotReadyToServe"
        /\ s = "LEADER_BUT_NO_MAJORITY_REPLICATED_LEASE" =>
             res.code = "LeaderHasNoLease"
        /\ s = "LEADER_AND_READY" => res = StatusOK
        /\ (res.code = "OK") <=> (s = "LEADER_AND_READY")
        /\ s # "LEADER_AND_READY" =>
             Len(res.msg) > 0 /\ (\A i \in DOMAIN res.msg : res.msg[i] # "")

C4_Witness ==
  /\ last.op = "CreateStatus"
  /\ last.state.status = "LEADER_BUT_NO_MAJORITY_REPLICATED_LEASE"
  /\ last.result.code = "LeaderHasNoLease"

\* C5: GetLeaderStatus(false) reports the first unmet gate of the ladder:
\* leadership, the committed no-op, the expiry of the old leader's lease (with
\* the remaining duration), the majority-replicated lease; ready only when
\* all four hold.
C5_ReadinessLadder ==
  (last.op = "GetLeaderStatus" /\ ~last.allow_stale) =>
    /\ role # "LEADER" => last.result = "NOT_LEADER"
    /\ (role = "LEADER" /\ ~leader_no_op_committed) =>
         last.result = "LEADER_BUT_NO_OP_NOT_COMMITTED"
    /\ (role = "LEADER" /\ leader_no_op_committed /\ old_leader_lease > 0) =>
         /\ last.result = "LEADER_BUT_OLD_LEADER_MAY_HAVE_LEASE"
         /\ last.state.remaining_old_leader_lease = old_leader_lease
    /\ (role = "LEADER" /\ leader_no_op_committed /\ old_leader_lease = 0
        /\ ~majority_lease) =>
         last.result = "LEADER_BUT_NO_MAJORITY_REPLICATED_LEASE"
    /\ (last.result = "LEADER_AND_READY") <=>
         (role = "LEADER" /\ leader_no_op_committed /\ old_leader_lease = 0
          /\ majority_lease)

C5_Witness ==
  /\ last.op = "GetLeaderStatus"
  /\ ~last.allow_stale
  /\ majority_lease
  /\ old_leader_lease = 2
  /\ last.result = "LEADER_BUT_OLD_LEADER_MAY_HAVE_LEASE"
  /\ last.state.remaining_old_leader_lease = 2

\* C6: GetLastOpId(RECEIVED) returns the result of the last-received query and
\* GetLastOpId(COMMITTED) that of the last-committed query, each calling its
\* own query only; any other kind fails with InvalidArgument naming the kind
\* and calls neither query.
C6_GetLastOpId ==
  last.op = "GetLastOpId" =>
    LET res == last.result IN
    /\ last.type = "RECEIVED_OPID" =>
         /\ res.status = StatusOK
         /\ res.value = last_received
         /\ res.queries = <<"GetLastReceivedOpId">>
    /\ last.type = "COMMITTED_OPID" =>
         /\ res.status = StatusOK
         /\ res.value = last_committed
         /\ res.queries = <<"GetLastCommittedOpId">>
    /\ last.type \notin {"RECEIVED_OPID", "COMMITTED_OPID"} =>
         /\ res.status.code = "InvalidArgument"
         /\ last.type \in Range(res.status.msg)
         /\ res.queries = <<>>

C6_Witness ==
  /\ last.op = "GetLastOpId"
  /\ last.type = "COMMITTED_OPID"
  /\ last_received # last_committed
  /\ last.result.value = last_committed

\* C7: when the installed hook's PRE_REPLICATE callback fails, ExecuteHook
\* returns that failure, and the replicate transition returns it at once: no
\* entry is appended and the post-replicate callback is not invoked.
C7_PreReplicateFailureAborts ==
  /\ (last.op = "ExecuteHook" /\ last.point = "PRE_REPLICATE"
      /\ "PreReplicate" \in fault_hooks_.fails) =>
       /\ last.result.code # "OK"
       /\ last.result = HookResult(fault_hooks_, "PreReplicate")
  /\ trans.preFailed =>
       /\ trans.pc = "returned"
       /\ trans.status.code # "OK"
       /\ ~trans.appended
       /\ ~trans.postCalled

C7_Witness ==
  /\ trans.preFailed
  /\ trans.pc = "returned"
  /\ last.op = "ReplicateBegin"
  /\ last.calls = <<[hook |-> fault_hooks_.id, method |-> "PreReplicate"]>>

\* C8: with no hook object installed, ExecuteHook returns success for each of
\* the ten points, invokes no callback and changes no state.
C8_NoHooksNoEffect ==
  [][(fault_hooks_ = NullHooks /\ last'.op = "ExecuteHook"
      /\ last'.point \in HookPoints) =>
       /\ last'.result = StatusOK
       /\ last'.calls = <<>>
       /\ ~last'.fatal
       /\ UNCHANGED <<roundVars, leaderVars, opIdVars, procVars, hookVars>>]_vars

C8_Witness ==
  /\ last.op = "ExecuteHook"
  /\ fault_hooks_ = NullHooks
  /\ last.point = "POST_SHUTDOWN"
  /\ last.result = StatusOK
  /\ hookCalls > 0

\* C9: a LeaderState that is not LEADER_AND_READY has the unknown term, and
\* LeaderTerm() returns the unknown term whenever the status computed for the
\* call is not LEADER_AND_READY.
C9_NotReadyHasUnknownTerm ==
  /\ leader_state_cache.status # "LEADER_AND_READY" =>
       leader_state_cache.term = kUnknownTerm
  /\ (last.op \in {"GetLeaderStatus", "LeaderTerm"}
      /\ last.state.status # "LEADER_AND_READY") =>
       last.state.term = kUnknownTerm
  /\ (last.op = "LeaderTerm" /\ last.state.status # "LEADER_AND_READY") =>
       last.result = kUnknownTerm

C9_Witness ==
  /\ last.op = "LeaderTerm"
  /\ role = "LEADER"
  /\ currentTerm = 2
  /\ last.state.status = "LEADER_BUT_NO_MAJORITY_REPLICATED_LEASE"
  /\ last.result = kUnknownTerm

\* C10: NotifyReplicationFinished on a round without a callback invokes
\* nothing and changes no state; on a round with a callback it invokes the
\* callback once with the status, the leader term and the applied op ids of
\* the call, whatever the round's bound term.
C10_NotifyPassThrough ==
  [][last'.op = "NotifyReplicationFinished" =>
       LET r == last'.round IN
       IF rounds[r].replicated_cb_ = NullCb
       THEN /\ last'.calls = <<>>
            /\ UNCHANGED <<roundVars, leaderVars, opIdVars, procVars, hookVars>>
       ELSE /\ last'.calls =
                 <<[cb |-> rounds[r].replicated_cb_, round |-> r,
                    status |-> last'.status,
                    leader_term |-> last'.leader_term,
                    applied_op_ids |-> last'.applied_op_ids]>>
            /\ cbCount' = [cbCount EXCEPT ![r] = @ + 1]
            /\ UNCHANGED <<currentTerm, rounds, leaderVars, opIdVars, procVars,
                           hookVars>>]_vars

C10_Witness ==
  /\ last.op = "NotifyReplicationFinished"
  /\ rounds[last.round].replicated_cb_ # NullCb
  /\ rounds[last.round].bound_term_ = 1
  /\ last.leader_term = 2
  /\ last.calls[1].leader_term = 2
  /\ \E r \in DOMAIN rounds : rounds[r].replicated_cb_ = NullCb


\* C11: for LEADER_BUT_OLD_LEADER_MAY_HAVE_LEASE the error of CreateStatus
\* embeds the remaining_old_leader_lease of the state, as MonoDelta prints
\* it; for the other four statuses the outcome is the same whatever the
\* remaining lease.
C11_LeaseEmbedded ==
  last.op = "CreateStatus" =>
    LET s == last.state.status
        res == last.result
    IN  /\ s = "LEADER_BUT_OLD_LEADER_MAY_HAVE_LEASE" =>
             res = [code |-> "LeaderNotReadyToServe",
                    msg |-> <<"Previous leader's lease might still be active (",
                              ToString(last.state.remaining_old_leader_lease)
                                \o ".000s",
                              " remaining).">>]
        /\ s = "NOT_LEADER" =>
             res = [code |-> "IllegalState", msg |-> <<"Not the leader">>]
        /\ s = "LEADER_BUT_NO_OP_NOT_COMMITTED" =>
             res = [code |-> "LeaderNotReadyToServe",
                    msg |-> <<"Leader not yet replicated NoOp to be ready to serve requests">>]
        /\ s = "LEADER_BUT_NO_MAJORITY_REPLICATED_LEASE" =>
             res = [code |-> "LeaderHasNoLease",
                    msg |-> <<"This leader has not yet acquired a lease.">>]
        /\ s = "LEADER_AND_READY" => res = [code |-> "OK", msg |-> <<>>]

C11_Witness ==
  /\ last.op = "CreateStatus"
  /\ last.state.status = "LEADER_BUT_OLD_LEADER_MAY_HAVE_LEASE"
  /\ last.state.remaining_old_leader_lease = 2
  /\ last.result.msg[2] = "2.000s"


\* C12: no round returned by NewRound holds a null payload.
C12_NoNullPayload ==
  \A r \in DOMAIN rounds : rounds[r].replicate_msg_ # NullMsg


\* C13: with a hook object installed, ExecuteHook(point) invokes exactly one
\* callback, the one of that point (pre/post of start, config change,
\* replicate, update, shutdown), and returns its result unchanged.
C13_DispatchMatchesPoint ==
  (last.op = "ExecuteHook" /\ fault_hooks_ # NullHooks
   /\ last.point \in HookPoints) =>
    LET callback ==
          [p \in HookPoints |->
             IF p = "PRE_START" THEN "PreStart"
             ELSE IF p = "POST_START" THEN "PostStart"
             ELSE IF p = "PRE_CONFIG_CHANGE" THEN "PreConfigChange"
             ELSE IF p = "POST_CONFIG_CHANGE" THEN "PostConfigChange"
             ELSE IF p = "PRE_REPLICATE" THEN "PreReplicate"
             ELSE IF p = "POST_REPLICATE" THEN "PostReplicate"
             ELSE IF p = "PRE_UPDATE" THEN "PreUpdate"
             ELSE IF p = "POST_UPDATE" THEN "PostUpdate"
             ELSE IF p = "PRE_SHUTDOWN" THEN "PreShutdown"
             ELSE "PostShutdown"]
    IN  /\ Len(last.calls) = 1
        /\ last.calls[1] = [hook |-> fault_hooks_.id,
                            method |-> callback[last.point]]
        /\ last.result = HookResult(fault_hooks_, callback[last.point])
        /\ ~last.fatal

C13_Witness ==
  /\ last.op = "ExecuteHook"
  /\ last.point = "POST_UPDATE"
  /\ fault_hooks_.id = 1
  /\ last.calls = <<[hook |-> 1, method |-> "PostUpdate"]>>
  /\ last.result.code = "RuntimeError"


\* C15: the installed hook object is the argument of the most recent
\* SetFaultHooks call: only SetFaultHooks changes it, to its argument;
\* GetFaultHooks returns it; every callback ExecuteHook invokes is one of it;
\* after a null hook object is installed nothing is invoked.
C15_LastWriterWins ==
  [][/\ last'.op = "SetFaultHooks" => fault_hooks_' = last'.hooks
     /\ last'.op # "SetFaultHooks" => fault_hooks_' = fault_hooks_
     /\ last'.op = "GetFaultHooks" => last'.result = fault_hooks_
     /\ last'.op \in {"ExecuteHook", "ReplicateBegin", "ReplicateEnd"} =>
          /\ fault_hooks_ = NullHooks => last'.calls = <<>>
          /\ \A i \in DOMAIN last'.calls :
               last'.calls[i].hook = fault_hooks_.id]_vars

C15_Witness ==
  /\ last.op = "ExecuteHook"
  /\ fault_hooks_.id = 2
  /\ last.calls # <<>>
  /\ last.calls[1].hook = 2
  /\ hookCalls = 3


\* C17 as stated: ExecuteHook with a point outside the ten defined points
\* terminates the process.
C17_UnknownPointFatal ==
  (last.op = "ExecuteHook" /\ last.point \notin HookPoints) =>
    (last.fatal /\ crashed)

\* C17 amended: with a hook object installed, ExecuteHook with a point outside
\* the ten terminates the process, returns nothing and nothing runs after it;
\* with no hook object installed it returns success.
C17_UnknownPointFatalWhenInstalled ==
  /\ []((last.op = "ExecuteHook" /\ last.point \notin HookPoints) =>
          IF fault_hooks_ # NullHooks
          THEN last.fatal /\ crashed /\ last.calls = <<>>
          ELSE ~last.fatal /\ ~crashed /\ last.result = StatusOK
               /\ last.calls = <<>>)
  /\ [](crashed => (last.op = "ExecuteHook" /\ last.fatal))
  /\ [][~crashed]_vars

C17_Witness ==
  /\ crashed
  /\ last.op = "ExecuteHook"
  /\ last.point = InvalidHookPoint
  /\ fault_hooks_ # NullHooks


\* C18: CheckBoundTerm is a pure query. Neither it nor
\* NotifyReplicationFinished changes a round's bound term, payload or
\* callback; CheckBoundTerm changes nothing at all, and its result is the same
\* for every round with the same bound term and the same current_term, before
\* and after the call.
C18_CheckBoundTermPure ==
  [][/\ last'.op \in {"CheckBoundTerm", "NotifyReplicationFinished"} =>
          rounds' = rounds
     /\ last'.op = "CheckBoundTerm" =>
          /\ UNCHANGED <<roundVars, leaderVars, opIdVars, procVars, hookVars>>
          /\ \A q \in DOMAIN rounds' :
               rounds'[q].bound_term_ = rounds[last'.round].bound_term_ =>
                 CheckBoundTerm(rounds'[q], last'.current_term) = last'.result]_vars

C18_Witness ==
  /\ last.op = "CheckBoundTerm"
  /\ last.result.code = "Aborted"
  /\ cbCount[last.round] = 2
  /\ \E q \in DOMAIN rounds :
       /\ rounds[q].bound_term_ = rounds[last.round].bound_term_
       /\ rounds[q].replicated_cb_ # rounds[last.round].replicated_cb_
       /\ rounds[q].replicate_msg_ # rounds[last.round].replicate_msg_


\* C14: when the driver runs CheckBoundTerm against the current term in one
\* step with the append, every entry is appended in the term its round is
\* bound to, whatever the term advances in between.
C14_AtomicCheckAppendsInBoundTerm ==
  \A e \in log :
    e.mode = "atomic" => rounds[e.round].bound_term_ = e.term

\* An entry appended in the bound term by the one-step driver, and an entry
\* appended in a later term by the driver that had checked ahead.
C14_Witness ==
  /\ \E e \in log : e.mode = "atomic" /\ e.term = 2
                    /\ rounds[e.round].bound_term_ = 2
  /\ \E e \in log : e.mode = "early" /\ rounds[e.round].bound_term_ = 1
                    /\ e.term = 2

\* The status one set of input values stands for.
Ladder(i) ==
  IF i.role # "LEADER" THEN "NOT_LEADER"
  ELSE IF ~i.no_op THEN "LEADER_BUT_NO_OP_NOT_COMMITTED"
  ELSE IF i.lease > 0 THEN "LEADER_BUT_OLD_LEADER_MAY_HAVE_LEASE"
  ELSE IF ~i.majority THEN "LEADER_BUT_NO_MAJORITY_REPLICATED_LEASE"
  ELSE "LEADER_AND_READY"

====
